---- MODULE Spec2Model ----
(***************************************************************************)
(* Best Farmer Backup Viewer: a model of the browser program that loads a  *)
(* backup ZIP, opens ranch.db and shows four tabs with a search filter.    *)
(* The state is the program's globals and the parts of the page it writes. *)
(***************************************************************************)
EXTENDS Integers, Sequences, FiniteSets, TLC

(***************************************************************************)
(* Strings are sequences of one-character strings, so that trimming, case  *)
(* mapping and substring search are computed and not assumed.              *)
(***************************************************************************)
UpperLetters == <<"A","B","C","D","E","F","G","H","I","J","K","L","M",
                  "N","O","P","Q","R","S","T","U","V","W","X","Y","Z">>

LowerLetters == <<"a","b","c","d","e","f","g","h","i","j","k","l","m",
                  "n","o","p","q","r","s","t","u","v","w","x","y","z">>

ToLowerChar(c) ==
  IF \E i \in 1..26 : UpperLetters[i] = c
  THEN LowerLetters[CHOOSE i \in 1..26 : UpperLetters[i] = c]
  ELSE c

ToUpperChar(c) ==
  IF \E i \in 1..26 : LowerLetters[i] = c
  THEN UpperLetters[CHOOSE i \in 1..26 : LowerLetters[i] = c]
  ELSE c

toLowerCase(s) == [i \in 1..Len(s) |-> ToLowerChar(s[i])]

UPPER(s) == [i \in 1..Len(s) |-> ToUpperChar(s[i])]

IsSpace(c) == c = " "

RECURSIVE trimStart(_)
trimStart(s) ==
  IF s # <<>> /\ IsSpace(Head(s)) THEN trimStart(Tail(s)) ELSE s

RECURSIVE trimEnd(_)
trimEnd(s) ==
  IF s # <<>> /\ IsSpace(s[Len(s)]) THEN trimEnd(SubSeq(s, 1, Len(s) - 1)) ELSE s

trim(s) == trimEnd(trimStart(s))

includes(s, q) ==
  \E i \in 0..(Len(s) - Len(q)) : SubSeq(s, i + 1, i + Len(q)) = q

endsWith(s, suf) ==
  /\ Len(suf) <= Len(s)
  /\ SubSeq(s, Len(s) - Len(suf) + 1, Len(s)) = suf

Digits == <<"0","1","2","3","4","5","6","7","8","9">>

RECURSIVE NatToStr(_)
NatToStr(n) ==
  IF n < 10 THEN <<Digits[n + 1]>>
  ELSE NatToStr(n \div 10) \o <<Digits[(n % 10) + 1]>>

IntToStr(n) == IF n < 0 THEN <<"-">> \o NatToStr(0 - n) ELSE NatToStr(n)

Pad2(n) == IF n < 10 THEN <<"0">> \o NatToStr(n) ELSE NatToStr(n)

Pad4(n) ==
  IF n < 10 THEN <<"0","0","0">> \o NatToStr(n)
  ELSE IF n < 100 THEN <<"0","0">> \o NatToStr(n)
  ELSE IF n < 1000 THEN <<"0">> \o NatToStr(n)
  ELSE NatToStr(n)

(***************************************************************************)
(* Values held in a record field: null, text, an integer, or a decimal.    *)
(* A decimal is kept in ten-thousandths (DecScale), one digit finer than   *)
(* the three decimals the inventory query rounds to.                       *)
(***************************************************************************)
DecScale == 10 * 1000

Null == [t |-> "null"]

StrV(s) == [t |-> "str", s |-> s]

IntV(n) == [t |-> "int", n |-> n]

DecV(k) == [t |-> "dec", k |-> k]

IsNull(v) == v.t = "null"

Abs(n) == IF n < 0 THEN 0 - n ELSE n

RECURSIVE StripZeros(_)
StripZeros(s) ==
  IF s # <<>> /\ s[Len(s)] = "0" THEN StripZeros(SubSeq(s, 1, Len(s) - 1)) ELSE s

\* The shortest decimal form of k/DecScale, as String(number) prints it.
DecToStr(k) ==
  LET a    == Abs(k)
      ip   == a \div DecScale
      fp   == a % DecScale
      frac == StripZeros(Pad4(fp))
      sign == IF k < 0 THEN <<"-">> ELSE <<>>
  IN  sign \o NatToStr(ip) \o (IF frac = <<>> THEN <<>> ELSE <<".">> \o frac)

\* String(v)
JsString(v) ==
  CASE v.t = "null" -> <<"n","u","l","l">>
    [] v.t = "str"  -> v.s
    [] v.t = "int"  -> IntToStr(v.n)
    [] v.t = "dec"  -> DecToStr(v.k)

\* !v
Falsy(v) ==
  \/ v.t = "null"
  \/ v.t = "str" /\ v.s = <<>>
  \/ v.t = "int" /\ v.n = 0
  \/ v.t = "dec" /\ v.k = 0

(***************************************************************************)
(* fmtDate: milliseconds since the epoch to the first ten characters of    *)
(* the ISO form, YYYY-MM-DD in UTC.                                        *)
(***************************************************************************)
MsPerDay == 86400000

IsDigit(c) == \E i \in 1..10 : Digits[i] = c

DigitVal(c) == (CHOOSE i \in 1..10 : Digits[i] = c) - 1

RECURSIVE DigitsToNat(_)
DigitsToNat(s) ==
  IF s = <<>> THEN 0
  ELSE 10 * DigitsToNat(SubSeq(s, 1, Len(s) - 1)) + DigitVal(s[Len(s)])

\* Number(v): [nan |-> TRUE] or the value, truncated to whole milliseconds as
\* new Date(n) does. Text is numeric when it is blank or all digits; signs,
\* fractions and exponents do not occur in the values the model draws.
Number(v) ==
  CASE v.t = "null" -> [nan |-> FALSE, n |-> 0]
    [] v.t = "int"  -> [nan |-> FALSE, n |-> v.n]
    [] v.t = "dec"  -> [nan |-> FALSE, n |-> v.k \div DecScale]
    [] v.t = "str"  ->
         LET s == trim(v.s)
         IN  IF \A i \in 1..Len(s) : IsDigit(s[i])
             THEN [nan |-> FALSE, n |-> DigitsToNat(s)]
             ELSE [nan |-> TRUE, n |-> 0]

\* Year, month and day of the day number z (days since 1970-01-01, z >= 0).
CivilFromDays(z0) ==
  LET z   == z0 + 719468
      era == z \div 146097
      doe == z - era * 146097
      yoe == (doe - doe \div 1460 + doe \div 36524 - doe \div 146096) \div 365
      doy == doe - (365 * yoe + yoe \div 4 - yoe \div 100)
      mp  == (5 * doy + 2) \div 153
      d   == doy - (153 * mp + 2) \div 5 + 1
      m   == IF mp < 10 THEN mp + 3 ELSE mp - 9
      y   == yoe + era * 400 + (IF m <= 2 THEN 1 ELSE 0)
  IN  [y |-> y, m |-> m, d |-> d]

toISODate(n) ==
  LET c == CivilFromDays(n \div MsPerDay)
  IN  Pad4(c.y) \o <<"-">> \o Pad2(c.m) \o <<"-">> \o Pad2(c.d)

fmtDate(ms) ==
  IF Falsy(ms) THEN StrV(<<>>)
  ELSE LET n == Number(ms)
       IN  IF n.nan \/ n.n <= 0 THEN StrV(JsString(ms))
           ELSE StrV(toISODate(n.n))

(***************************************************************************)
(* The database of an archive. A table is absent, present with the columns *)
(* the queries name, or present without one of them (a query that names    *)
(* the table then raises). Rows are records of values.                     *)
(***************************************************************************)
NoTable == [present |-> FALSE, ok |-> FALSE, rows |-> <<>>]

BrokenTable == [present |-> TRUE, ok |-> FALSE, rows |-> <<>>]

Tbl(rows) == [present |-> TRUE, ok |-> TRUE, rows |-> rows]

TableNames ==
  {"cattle", "feed_entries", "feed_lots", "feed_storages",
   "feed_inventory_pools", "feed_inventory_pool_txns",
   "feed_inventory_lots", "feed_inventory_txns",
   "breeding_sessions", "breeding_exposures"}

\* db = null, before the first archive is opened
NullDb == [open |-> FALSE, tables |-> [n \in TableNames |-> NoTable]]

Database(tables) == [open |-> TRUE, tables |-> tables]

\* What queryAll gives: the rows, or the error it throws.
Rows(rows) == [err |-> FALSE, rows |-> rows]

Throws == [err |-> TRUE, rows |-> <<>>]

\* db.prepare raises when db is null, a named table is absent, or a named
\* column is.
Runs(d, names) == d.open /\ \A n \in names : d.tables[n].present /\ d.tables[n].ok

hasTable(d, tableName) == d.open /\ d.tables[tableName].present

(***************************************************************************)
(* SQL comparison. NULL sorts first, then numbers, then text in code-unit  *)
(* order; NULL equals nothing in a join condition.                         *)
(***************************************************************************)
CodeOrder ==
  <<" ", "-", ".", "/">> \o Digits \o UpperLetters \o <<"_">> \o LowerLetters

CharCode(c) == CHOOSE i \in 1..Len(CodeOrder) : CodeOrder[i] = c

RECURSIVE TextLess(_, _)
TextLess(a, b) ==
  IF b = <<>> THEN FALSE
  ELSE IF a = <<>> THEN TRUE
  ELSE IF Head(a) = Head(b) THEN TextLess(Tail(a), Tail(b))
  ELSE CharCode(Head(a)) < CharCode(Head(b))

TypeRank(v) == IF v.t = "null" THEN 0 ELSE IF v.t = "str" THEN 2 ELSE 1

\* A number in ten-thousandths.
Scaled(v) == IF v.t = "int" THEN v.n * DecScale ELSE v.k

SqlLess(a, b) ==
  IF TypeRank(a) # TypeRank(b) THEN TypeRank(a) < TypeRank(b)
  ELSE CASE a.t = "null" -> FALSE
         [] a.t = "str"  -> TextLess(a.s, b.s)
         [] a.t = "int" /\ b.t = "int" -> a.n < b.n
         [] OTHER -> Scaled(a) < Scaled(b)

SqlEq(a, b) ==
  /\ ~IsNull(a)
  /\ ~IsNull(b)
  /\ IF a.t = "str" \/ b.t = "str" THEN a = b
     ELSE IF a.t = "int" /\ b.t = "int" THEN a.n = b.n
     ELSE Scaled(a) = Scaled(b)

OrderByAsc(rows, key) == SortSeq(rows, LAMBDA a, b : SqlLess(a[key], b[key]))

OrderByDesc(rows, key) == SortSeq(rows, LAMBDA a, b : SqlLess(b[key], a[key]))

Limit(rows, n) == SubSeq(rows, 1, IF Len(rows) < n THEN Len(rows) ELSE n)

RECURSIVE FlattenRange(_, _, _)
FlattenRange(ss, lo, hi) ==
  IF lo > hi THEN <<>>
  ELSE IF lo = hi THEN ss[lo]
  ELSE LET mid == (lo + hi) \div 2
       IN  FlattenRange(ss, lo, mid) \o FlattenRange(ss, mid + 1, hi)

Flatten(ss) == FlattenRange(ss, 1, Len(ss))

\* left JOIN right ON on(l, r): every matching pair, left order first.
Join(left, right, on(_, _), pair(_, _)) ==
  Flatten([i \in 1..Len(left) |->
    LET m == SelectSeq(right, LAMBDA r : on(left[i], r))
    IN  [j \in 1..Len(m) |-> pair(left[i], m[j])]])

(***************************************************************************)
(* The record queries of renderTab. Object.keys of a result row is the     *)
(* query's SELECT list, in order.                                          *)
(***************************************************************************)
CattleCols ==
  <<"id", "ear_tag", "status", "sex", "role", "group_name", "cohort", "photo_path">>

FeedCols == <<"date", "group_name", "feed_type", "amount", "unit", "cost_per_unit">>

SnapshotCols == <<"storage", "feed_type", "unit", "on_hand">>

SessionCols == <<"group_name", "start_date", "end_date", "gestation_days", "notes">>

ExposureCols ==
  <<"session_id", "cow_tag", "cow_status", "exposed", "observed_breeding_date",
    "preg_check_date", "preg_result", "due_date", "notes", "cow_photo_path">>

ColLists == {CattleCols, FeedCols, SnapshotCols, SessionCols, ExposureCols}

SeqRange(q) == {q[i] : i \in 1..Len(q)}

\* Object.keys(r)
ObjectKeys(r) == CHOOSE cs \in ColLists : SeqRange(cs) = DOMAIN r

Project(r, cols) == [c \in SeqRange(cols) |-> r[c]]

\* SELECT id, ear_tag, ... FROM cattle ORDER BY ear_tag ASC  (no LIMIT)
CattleQuery(d) ==
  IF ~Runs(d, {"cattle"}) THEN Throws
  ELSE LET t == d.tables["cattle"].rows
       IN  Rows(OrderByAsc([i \in 1..Len(t) |-> Project(t[i], CattleCols)], "ear_tag"))

FeedLimit == 2000

\* SELECT ... FROM feed_entries fe JOIN feed_lots fl ON fl.id = fe.feed_lot_id
\* ORDER BY fe.date DESC LIMIT 2000
FeedQuery(d) ==
  IF ~Runs(d, {"feed_entries", "feed_lots"}) THEN Throws
  ELSE LET j == Join(d.tables["feed_entries"].rows, d.tables["feed_lots"].rows,
                     LAMBDA fe, fl : SqlEq(fl.id, fe.feed_lot_id),
                     LAMBDA fe, fl : [date |-> fe.date, group_name |-> fe.group_name,
                                      feed_type |-> fl.name, amount |-> fe.amount,
                                      unit |-> fl.unit, cost_per_unit |-> fl.cost_per_unit])
       IN  Rows(Limit(OrderByDesc(j, "date"), FeedLimit))

SessionLimit == 200

\* SELECT ... FROM breeding_sessions ORDER BY start_date DESC LIMIT 200
SessionsQuery(d) ==
  IF ~Runs(d, {"breeding_sessions"}) THEN Throws
  ELSE LET t == d.tables["breeding_sessions"].rows
       IN  Rows(Limit(OrderByDesc([i \in 1..Len(t) |-> Project(t[i], SessionCols)],
                                  "start_date"), SessionLimit))

ExposureLimit == 500

\* SELECT ... FROM breeding_exposures ORDER BY created_at DESC LIMIT 500
ExposuresQuery(d) ==
  IF ~Runs(d, {"breeding_exposures"}) THEN Throws
  ELSE LET t == OrderByDesc(d.tables["breeding_exposures"].rows, "created_at")
           l == Limit(t, ExposureLimit)
       IN  Rows([i \in 1..Len(l) |-> Project(l[i], ExposureCols)])

(***************************************************************************)
(* The on-hand aggregation, the same statement over pools or over lots.    *)
(***************************************************************************)
ADD == <<"A", "D", "D">>

REMOVE == <<"R", "E", "M", "O", "V", "E">>

ADJUST == <<"A", "D", "J", "U", "S", "T">>

Negate(v) ==
  CASE v.t = "int" -> IntV(0 - v.n)
    [] v.t = "dec" -> DecV(0 - v.k)
    [] OTHER -> Null

\* SignedQty as it would be with CASE it.type, the kind compared as stored.
SignedQty_caseSensitive(type, qty) ==
  IF type.t # "str" THEN IntV(0)
  ELSE IF type.s = ADD THEN qty
  ELSE IF type.s = REMOVE THEN Negate(qty)
  ELSE IF type.s = ADJUST THEN qty
  ELSE IntV(0)

\* CASE UPPER(it.type) WHEN 'ADD' THEN it.qty WHEN 'REMOVE' THEN -it.qty
\*                     WHEN 'ADJUST' THEN it.qty ELSE 0 END
SignedQty(type, qty) ==
  IF type.t # "str" THEN IntV(0)
  ELSE LET u == UPPER(type.s)
       IN  IF u = ADD THEN qty
           ELSE IF u = REMOVE THEN Negate(qty)
           ELSE IF u = ADJUST THEN qty
           ELSE IntV(0)

RECURSIVE SumScaled(_)
SumScaled(vs) == IF vs = <<>> THEN 0 ELSE Scaled(Head(vs)) + SumScaled(Tail(vs))

\* SUM(x): NULL terms are skipped; NULL when every term is NULL.
SUM(vs) ==
  LET nn == SelectSeq(vs, LAMBDA v : ~IsNull(v))
  IN  IF nn = <<>> THEN Null ELSE DecV(SumScaled(nn))

\* ROUND(x, 3): to the nearest thousandth, halves away from zero.
ROUND3(v) ==
  IF IsNull(v) THEN Null
  ELSE LET a == Abs(v.k)
           r == ((a + 5) \div 10) * 10
       IN  DecV(IF v.k < 0 THEN 0 - r ELSE r)

RECURSIVE SetToSeq(_)
SetToSeq(S) ==
  IF S = {} THEN <<>>
  ELSE LET x == CHOOSE y \in S : TRUE IN <<x>> \o SetToSeq(S \ {x})

\* txns JOIN holders JOIN feed_storages JOIN feed_lots
\* GROUP BY s.name, fl.name, fl.unit ORDER BY s.name ASC, fl.name ASC
Snapshot(d, txnTable, holderTable, holderKey) ==
  IF ~Runs(d, {txnTable, holderTable, "feed_storages", "feed_lots"}) THEN Throws
  ELSE
    LET j1 == Join(d.tables[txnTable].rows, d.tables[holderTable].rows,
                   LAMBDA it, p : SqlEq(p.id, it[holderKey]),
                   LAMBDA it, p : [type |-> it.type, qty |-> it.qty,
                                   storage_id |-> p.storage_id,
                                   feed_lot_id |-> p.feed_lot_id])
        j2 == Join(j1, d.tables["feed_storages"].rows,
                   LAMBDA x, st : SqlEq(st.id, x.storage_id),
                   LAMBDA x, st : [type |-> x.type, qty |-> x.qty,
                                   storage |-> st.name, feed_lot_id |-> x.feed_lot_id])
        j3 == Join(j2, d.tables["feed_lots"].rows,
                   LAMBDA x, fl : SqlEq(fl.id, x.feed_lot_id),
                   LAMBDA x, fl : [type |-> x.type, qty |-> x.qty, storage |-> x.storage,
                                   feed_type |-> fl.name, unit |-> fl.unit])
        keys == {<<j3[i].storage, j3[i].feed_type, j3[i].unit>> : i \in 1..Len(j3)}
        grp(k) == SelectSeq(j3, LAMBDA x : <<x.storage, x.feed_type, x.unit>> = k)
        row(k) == LET g == grp(k)
                  IN  [storage |-> k[1], feed_type |-> k[2], unit |-> k[3],
                       on_hand |-> ROUND3(SUM([i \in 1..Len(g) |->
                                                 SignedQty(g[i].type, g[i].qty)]))]
        ks == SetToSeq(keys)
        out == [i \in 1..Len(ks) |-> row(ks[i])]
    IN  Rows(SortSeq(out, LAMBDA a, b :
               \/ SqlLess(a.storage, b.storage)
               \/ /\ ~SqlLess(b.storage, a.storage)
                  /\ SqlLess(a.feed_type, b.feed_type)))

pooledSnapshot(d) ==
  Snapshot(d, "feed_inventory_pool_txns", "feed_inventory_pools", "pool_id")

legacySnapshot(d) ==
  Snapshot(d, "feed_inventory_txns", "feed_inventory_lots", "lot_id")

\* SELECT (SELECT COUNT(*) FROM a), (SELECT COUNT(*) FROM b); COUNT(*) names
\* no column, so it runs on any table that is present.
Count(d, n) == Len(d.tables[n].rows)

(***************************************************************************)
(* mapDateColumns: among the columns the queries select, those whose name  *)
(* ends in _date or _at or is date.                                        *)
(***************************************************************************)
IsDateCol(c) ==
  c \in {"date", "start_date", "end_date", "observed_breeding_date",
         "preg_check_date", "due_date"}

mapDateColumns(rows, cols) ==
  LET dateCols == {c \in SeqRange(cols) : IsDateCol(c)}
  IN  IF dateCols = {} THEN rows
      ELSE [i \in 1..Len(rows) |->
             [c \in DOMAIN rows[i] |->
                IF c \in dateCols /\ ~IsNull(rows[i][c]) /\ rows[i][c] # StrV(<<>>)
                THEN fmtDate(rows[i][c]) ELSE rows[i][c]]]

\* Object.keys(rows[0] || {})
KeysOfFirst(rows) == IF rows = <<>> THEN <<>> ELSE ObjectKeys(rows[1])

(***************************************************************************)
(* The page and the globals. A program state is handled as one record, so  *)
(* that a handler is the composition of the functions it calls:            *)
(*   db, zipIndex, currentTab, lastRenderedRows/Cols/PhotoCol  the globals *)
(*   searchValue, countPill, status, view                     the elements *)
(*   dom    the image cells of every table a photo loop still refers to or *)
(*          the view shows, by table                                       *)
(*   tasks  the photo loops suspended at  await entry.async(...)           *)
(*   sql    the statements the running handler has executed                *)
(***************************************************************************)
NoCol == "null"

NoZip == [kind |-> "null"]

RowsWord == <<" ", "r", "o", "w", "s">>

\* setCountPill(filteredCount, totalCount): the text written to the pill
CountText(filteredCount, totalCount) ==
  IF totalCount = filteredCount THEN NatToStr(totalCount) \o RowsWord
  ELSE NatToStr(filteredCount) \o <<" ", "/", " ">> \o NatToStr(totalCount) \o RowsWord

setCountPill(s, filteredCount, totalCount) ==
  [s EXCEPT !.countPill = CountText(filteredCount, totalCount)]

setStatus(s, text, cls) ==
  [s EXCEPT !.status = [text |-> text, cls |-> IF cls = "" THEN "muted" ELSE cls]]

\* What viewEl holds. kind: "blank" (nothing written yet), "table", "norows",
\* "warn", "diag", "breeding", "err".
View(kind, msg) ==
  [kind |-> kind, msg |-> msg, rows |-> <<>>, cols |-> <<>>, photoCol |-> NoCol,
   tid |-> 0, sessions |-> <<>>, counts |-> <<>>]

\* The records of the table the filter works on, as the view shows them.
DisplayedRows(v) == IF v.kind \in {"table", "breeding"} THEN v.rows ELSE <<>>

\* An image cell: the placeholder dash, an <img data-photo=...> with or
\* without a src, or the text node that replaced it.
DashCell == [kind |-> "dash", photo |-> <<>>, src |-> <<>>]

ImgCell(photo) == [kind |-> "img", photo |-> photo, src |-> <<>>]

MissingText(c) == [c EXCEPT !.kind = "Missing"]

WithSrc(c, url) == [c EXCEPT !.src = <<url>>]

PhotoCells(rows, photoPathKey) ==
  [i \in 1..Len(rows) |->
     LET p == IF photoPathKey \in DOMAIN rows[i] THEN rows[i][photoPathKey] ELSE Null
     IN  IF Falsy(p) THEN DashCell ELSE ImgCell(JsString(p))]

\* querySelectorAll("img[data-photo]"): the rows that hold an <img>
ImgRows(cells) ==
  LET idx == [i \in 1..Len(cells) |-> i]
  IN  SelectSeq(idx, LAMBDA i : cells[i].kind = "img")

(***************************************************************************)
(* The archives the user can pick. An archive is a ZIP (or a file that is  *)
(* not one) with its non-directory entries and, under the entry whose base *)
(* name is ranch.db, a database.                                           *)
(***************************************************************************)
RanchDb == <<"r", "a", "n", "c", "h", ".", "d", "b">>

Slash == "/"

\* The base name as it would be with  name.split("/").shift() : the text
\* before the first slash.
BaseName_firstSegment(path) ==
  IF \E i \in 1..Len(path) : path[i] = Slash
  THEN SubSeq(path, 1, (CHOOSE i \in 1..Len(path) :
                          path[i] = Slash /\ \A j \in 1..(i - 1) : path[j] # Slash) - 1)
  ELSE path

\* name.split("/").pop()
RECURSIVE BaseName(_)
BaseName(path) ==
  IF \E i \in 1..Len(path) : path[i] = Slash
  THEN BaseName(SubSeq(path, (CHOOSE i \in 1..Len(path) : path[i] = Slash) + 1, Len(path)))
  ELSE path

PhotoA == <<"p", "/", "a", ".", "j", "p", "g">>

PhotoK == <<"p", "/", "k", ".", "P", "N", "G">>

PhotoX == <<"p", "/", "x", ".", "p", "n", "g">>

Cow(id, tag, group, photo) ==
  [id |-> IntV(id), ear_tag |-> StrV(tag), status |-> StrV(<<"o", "k">>), sex |-> StrV(<<"F">>),
   role |-> StrV(<<"c", "o", "w">>), group_name |-> StrV(group), cohort |-> Null, photo_path |-> photo,
   notes |-> StrV(<<"z", "z">>)]

Day == MsPerDay

FeedLot(id, name, unit) ==
  [id |-> IntV(id), name |-> StrV(name), unit |-> StrV(unit), cost_per_unit |-> DecV(25000)]

FeedEntry(date, lot, amount) ==
  [date |-> date, group_name |-> StrV(<<"N">>), feed_lot_id |-> IntV(lot), amount |-> IntV(amount)]

Storage(id, name) == [id |-> IntV(id), name |-> StrV(name)]

Holder(id, storage, lot) ==
  [id |-> IntV(id), storage_id |-> IntV(storage), feed_lot_id |-> IntV(lot)]

PoolTxn(pool, type, qty) == [pool_id |-> IntV(pool), type |-> StrV(type), qty |-> qty]

LotTxn(lot, type, qty) == [lot_id |-> IntV(lot), type |-> StrV(type), qty |-> qty]

Session(group, start) ==
  [group_name |-> StrV(group), start_date |-> IntV(start), end_date |-> Null,
   gestation_days |-> IntV(283), notes |-> Null]

Exposure(session, tag, observed, photo, created) ==
  [session_id |-> IntV(session), cow_tag |-> StrV(tag), cow_status |-> StrV(<<"o", "k">>),
   exposed |-> IntV(1), observed_breeding_date |-> observed, preg_check_date |-> Null,
   preg_result |-> Null, due_date |-> StrV(<<>>), notes |-> Null,
   cow_photo_path |-> photo, created_at |-> IntV(created)]

BarnA == <<"B", "a", "r", "n", " ", "A">>

Shed == <<"S", "h", "e", "d">>

Hay == <<"H", "a", "y">>

Bales == <<"b", "a", "l", "e", "s">>

StoragesT == Tbl(<<Storage(1, BarnA), Storage(2, Shed)>>)

FeedLotsT == Tbl(<<FeedLot(1, Hay, Bales)>>)

HoldersT == Tbl(<<Holder(1, 1, 1), Holder(2, 2, 1)>>)

\* A current backup: every table, pooled inventory, photos in the ZIP.
FullDb ==
  Database([n \in TableNames |->
    CASE n = "cattle" ->
           Tbl(<<Cow(1, <<"B", "7">>, <<"N">>, StrV(PhotoA)), Cow(2, <<"A", "3">>, <<"S">>, StrV(PhotoX)),
                 Cow(3, <<"C", "1">>, <<"N">>, Null)>>)
      [] n = "feed_entries" ->
           Tbl(<<FeedEntry(IntV(2 * Day + 5), 1, 4), FeedEntry(IntV(20 * Day), 1, 6),
                 FeedEntry(Null, 7, 1)>>)
      [] n = "feed_lots" -> FeedLotsT
      [] n = "feed_storages" -> StoragesT
      [] n = "feed_inventory_pools" -> HoldersT
      [] n = "feed_inventory_pool_txns" ->
           Tbl(<<PoolTxn(1, ADD, IntV(100)), PoolTxn(1, <<"r", "e", "m", "o", "v", "e">>, IntV(30)),
                 PoolTxn(1, <<"A", "d", "j", "u", "s", "t">>, IntV(0 - 5)), PoolTxn(2, ADD, DecV(12345))>>)
      [] n = "breeding_sessions" -> Tbl(<<>>)
      [] n = "breeding_exposures" ->
           Tbl(<<Exposure(1, <<"B", "7">>, IntV(3 * Day), StrV(PhotoA), 10),
                 Exposure(1, <<"A", "3">>, Null, StrV(PhotoX), 20),
                 Exposure(1, <<"C", "1">>, StrV(<<"s", "o", "o", "n">>), Null, 30)>>)
      [] OTHER -> NoTable])

\* An older backup: no feed log, pooled tables created but empty, the legacy
\* ledger in use, breeding sessions without exposures, a damaged photo.
OldDb ==
  Database([n \in TableNames |->
    CASE n = "cattle" ->
           Tbl(<<Cow(1, <<"B", "7">>, <<"N">>, StrV(PhotoA)), Cow(2, <<"A", "9">>, <<"N">>, StrV(PhotoK))>>)
      [] n = "feed_lots" -> FeedLotsT
      [] n = "feed_storages" -> StoragesT
      [] n = "feed_inventory_pools" -> Tbl(<<>>)
      [] n = "feed_inventory_pool_txns" -> Tbl(<<>>)
      [] n = "feed_inventory_lots" -> HoldersT
      [] n = "feed_inventory_txns" -> Tbl(<<LotTxn(2, ADD, IntV(7))>>)
      [] n = "breeding_sessions" -> Tbl(<<Session(<<"N">>, 5 * Day)>>)
      [] n = "breeding_exposures" -> Tbl(<<>>)
      [] OTHER -> NoTable])

\* A backup of another schema: no cattle table, a feed log without the
\* columns the query names, no inventory and no breeding tables.
BareDb ==
  Database([n \in TableNames |->
    CASE n = "feed_entries" -> BrokenTable
      [] n = "feed_lots" -> FeedLotsT
      [] OTHER -> NoTable])

\* A backup whose cattle table lacks the columns the roster query names.
OddDb ==
  Database([n \in TableNames |->
    CASE n = "cattle" -> BrokenTable
      [] n = "feed_lots" -> FeedLotsT
      [] OTHER -> NoTable])

Archive(isZip, entries, database) ==
  [isZip |-> isZip, entries |-> entries, database |-> database]

NestedDb == <<"b", "k", "/">> \o RanchDb

NotRanchDb == <<"x">> \o RanchDb

UnderRanchDb == RanchDb \o <<"/", "a">>

Archives ==
  [full  |-> Archive(TRUE, (RanchDb :> "ok") @@ (PhotoA :> "ok") @@ (PhotoK :> "ok"), FullDb),
   old   |-> Archive(TRUE, (NestedDb :> "ok") @@ (PhotoA :> "ok")
                           @@ (PhotoK :> "corrupt"), OldDb),
   bare  |-> Archive(TRUE, (RanchDb :> "ok"), BareDb),
   nodb  |-> Archive(TRUE, (NotRanchDb :> "ok") @@ (UnderRanchDb :> "ok")
                           @@ (PhotoA :> "ok"), NullDb),
   odd   |-> Archive(TRUE, (RanchDb :> "ok") @@ (PhotoA :> "ok"), OddDb),
   torn  |-> Archive(TRUE, (RanchDb :> "corrupt"), NullDb),
   notzip |-> Archive(FALSE, << >>, NullDb)]

\* A file the user can pick is named by a record: one of the archives above,
\* or an archive generated from parameters (an inventory ledger, table sizes).
Fixed(id) == [kind |-> "fixed", id |-> id]

FixedFiles == {Fixed(id) : id \in DOMAIN Archives}

\* An inventory side: whether its two tables exist, and its transactions as
\* <<holder id, type, qty>>.
Side(present, txns) == [present |-> present, txns |-> txns]

InvFile(shared, pooled, legacy) ==
  [kind |-> "inv", shared |-> shared, pooled |-> pooled, legacy |-> legacy]

InvDb(f) ==
  Database([n \in TableNames |->
    CASE n = "cattle" -> Tbl(<<>>)
      [] n = "feed_lots" -> IF f.shared THEN FeedLotsT ELSE NoTable
      [] n = "feed_storages" -> IF f.shared THEN StoragesT ELSE NoTable
      [] n = "feed_inventory_pools" -> IF f.pooled.present THEN HoldersT ELSE NoTable
      [] n = "feed_inventory_pool_txns" ->
           IF f.pooled.present
           THEN Tbl([i \in 1..Len(f.pooled.txns) |->
                      PoolTxn(f.pooled.txns[i][1], f.pooled.txns[i][2], f.pooled.txns[i][3])])
           ELSE NoTable
      [] n = "feed_inventory_lots" -> IF f.legacy.present THEN HoldersT ELSE NoTable
      [] n = "feed_inventory_txns" ->
           IF f.legacy.present
           THEN Tbl([i \in 1..Len(f.legacy.txns) |->
                      LotTxn(f.legacy.txns[i][1], f.legacy.txns[i][2], f.legacy.txns[i][3])])
           ELSE NoTable
      [] OTHER -> NoTable])

\* A backup with the given numbers of animals, feed entries, breeding
\* sessions and exposures.
CapFile(cattle, feed, sessions, exposures) ==
  [kind |-> "cap", cattle |-> cattle, feed |-> feed, sessions |-> sessions,
   exposures |-> exposures]

CapDb(f) ==
  Database([n \in TableNames |->
    CASE n = "cattle" ->
           Tbl([i \in 1..f.cattle |->
                  Cow(i, NatToStr(i), <<"N">>, IF i = 1 THEN StrV(PhotoA) ELSE Null)])
      [] n = "feed_entries" ->
           Tbl([i \in 1..f.feed |-> FeedEntry(IntV(Day + i), 1, i)])
      [] n = "feed_lots" -> FeedLotsT
      [] n = "breeding_sessions" ->
           Tbl([i \in 1..f.sessions |-> Session(NatToStr(i), Day + i)])
      [] n = "breeding_exposures" ->
           Tbl([i \in 1..f.exposures |->
                  Exposure(1, NatToStr(i), Null,
                           IF i = 1 THEN StrV(PhotoA) ELSE Null, i)])
      [] OTHER -> NoTable])

ArchiveOf(f) ==
  CASE f.kind = "fixed" -> Archives[f.id]
    [] f.kind = "inv"   -> Archive(TRUE, (RanchDb :> "ok"), InvDb(f))
    [] f.kind = "cap"   -> Archive(TRUE, (RanchDb :> "ok") @@ (PhotoA :> "ok"), CapDb(f))

\* zipIndex: path -> entry, for the archive it was built from
ZipEntries(zi) == ArchiveOf(zi).entries

(***************************************************************************)
(* Photo resolution. zipIndex names the archive whose entries it indexes;  *)
(* ZipEntries gives, for each non-directory path of that archive, whether  *)
(* its bytes can be extracted ("ok") or entry.async rejects ("corrupt").   *)
(***************************************************************************)
PNG == <<".", "p", "n", "g">>

JPG == <<".", "j", "p", "g">>

JPEG == <<".", "j", "p", "e", "g">>

WEBP == <<".", "w", "e", "b", "p">>

PDF == <<".", "p", "d", "f">>

MimeOf(path) ==
  LET lower == toLowerCase(path)
  IN  IF endsWith(lower, PNG) THEN "image/png"
      ELSE IF endsWith(lower, JPG) \/ endsWith(lower, JPEG) THEN "image/jpeg"
      ELSE IF endsWith(lower, WEBP) THEN "image/webp"
      ELSE IF endsWith(lower, PDF) THEN "application/pdf"
      ELSE "application/octet-stream"

\* URL.createObjectURL(new Blob([bytes], {type: mime})): the bytes it shows
BlobUrl(zip, path) == [zip |-> zip, path |-> path, mime |-> MimeOf(path)]

\* The photo loop from image number pos on, up to its next suspension: a
\* reference that is not in the index resolves to null without leaving the
\* event-loop turn, and its <img> is replaced by the text Missing.
\* The loop as it would be with  imgs.forEach(async (img) => ...) : every
\* image from pos on is looked up at once, so the images that are not in
\* the index are replaced without waiting for an extraction, and every
\* extraction is started; pos is the last image being extracted.
PhotoLoop_allAtOnce(zi, cells, imgs, pos) ==
  IF zi = NoZip THEN [cells |-> cells, pos |-> pos, waiting |-> FALSE]
  ELSE [cells |-> [r \in 1..Len(cells) |->
                     IF /\ \E k \in pos..Len(imgs) : imgs[k] = r
                        /\ cells[r].photo \notin DOMAIN ZipEntries(zi)
                     THEN MissingText(cells[r]) ELSE cells[r]],
        pos |-> IF \E k \in pos..Len(imgs) : cells[imgs[k]].photo \in DOMAIN ZipEntries(zi)
                THEN CHOOSE k \in pos..Len(imgs) :
                       /\ cells[imgs[k]].photo \in DOMAIN ZipEntries(zi)
                       /\ \A j \in (k + 1)..Len(imgs) :
                            cells[imgs[j]].photo \notin DOMAIN ZipEntries(zi)
                ELSE Len(imgs) + 1,
        waiting |-> \E k \in pos..Len(imgs) : cells[imgs[k]].photo \in DOMAIN ZipEntries(zi)]

RECURSIVE PhotoLoop(_, _, _, _)
PhotoLoop(zi, cells, imgs, pos) ==
  IF pos > Len(imgs) THEN [cells |-> cells, pos |-> pos, waiting |-> FALSE]
  ELSE LET r == imgs[pos]
           path == cells[r].photo
       IN  IF zi = NoZip THEN [cells |-> cells, pos |-> pos, waiting |-> FALSE]
           ELSE IF path = <<>> \/ path \notin DOMAIN ZipEntries(zi)
           THEN PhotoLoop(zi, [cells EXCEPT ![r] = MissingText(@)], imgs, pos + 1)
           ELSE [cells |-> cells, pos |-> pos, waiting |-> TRUE]

TaskIds(s) == {t.tid : t \in s.tasks}

FreshTid(s) == CHOOSE i \in 1..(Cardinality(s.tasks) + 1) : i \notin TaskIds(s)

\* Tables that nothing refers to any more are dropped.
Gc(s) ==
  LET live == (TaskIds(s) \cup {s.view.tid}) \ {0}
  IN  [s EXCEPT !.dom = [i \in live |-> s.dom[i]]]

\* The loop has run, from its start, to its first suspension or to its end.
PhotoLoopStarted(s, tid, imgs, r) ==
  [s EXCEPT !.dom = [@ EXCEPT ![tid] = r.cells],
            !.tasks = IF r.waiting
                      THEN @ \cup {[tid |-> tid, imgs |-> imgs, pos |-> r.pos,
                                    zip |-> s.zipIndex,
                                    path |-> r.cells[imgs[r.pos]].photo]}
                      ELSE @]

\* void (async () => { for (const img of imgs) { ... await ... } })()
StartPhotoLoop(s, tid) ==
  PhotoLoopStarted(s, tid, ImgRows(s.dom[tid]),
                   PhotoLoop(s.zipIndex, s.dom[tid], ImgRows(s.dom[tid]), 1))

\* if (photoPathKey) { void (async () => ...)() }
FillPhotos(s, photoPathKey) ==
  IF photoPathKey = NoCol THEN s ELSE StartPhotoLoop(s, s.view.tid)

\* viewEl.innerHTML = <table>: a new table with its image cells
ShowTable(s, v, cells) ==
  LET tid == FreshTid(s)
  IN  [s EXCEPT !.view = [v EXCEPT !.tid = tid],
                !.dom = [i \in (DOMAIN @) \cup {tid} |-> IF i = tid THEN cells ELSE @[i]]]

TableView(rows, photoPathKey) ==
  [View("table", "") EXCEPT !.rows = rows, !.cols = ObjectKeys(rows[1]),
                            !.photoCol = photoPathKey]

TableCells(rows, photoPathKey) ==
  IF photoPathKey = NoCol THEN <<>> ELSE PhotoCells(rows, photoPathKey)

\* renderTable from  if (!rows || rows.length === 0)  on, for no rows
renderNoRows(s) ==
  Gc(setCountPill([s EXCEPT !.lastRenderedCols = <<>>,
                            !.view = View("norows", "No rows.")], 0, 0))

\* renderTable from  const cols = Object.keys(rows[0])  on
renderRows(s, rows, photoPathKey) ==
  Gc(FillPhotos(setCountPill(ShowTable([s EXCEPT !.lastRenderedCols = ObjectKeys(rows[1])],
                                       TableView(rows, photoPathKey),
                                       TableCells(rows, photoPathKey)),
                             Len(rows), Len(rows)),
                photoPathKey))

renderTable(s, rows, photoPathKey) ==
  IF rows = <<>>
  THEN renderNoRows([s EXCEPT !.lastRenderedRows = rows,
                              !.lastRenderedPhotoCol = photoPathKey])
  ELSE renderRows([s EXCEPT !.lastRenderedRows = rows,
                            !.lastRenderedPhotoCol = photoPathKey], rows, photoPathKey)

\* RowMatches as it would be without  if (v == null) continue : String(null)
\* is searched like any other text.
RowMatches_nullAsText(r, cols, q) ==
  \E i \in 1..Len(cols) :
     includes(toLowerCase(JsString(IF cols[i] \in DOMAIN r THEN r[cols[i]] ELSE Null)), q)

\* The row matches when some non-null field's lower-cased text contains q.
RowMatches(r, cols, q) ==
  \E i \in 1..Len(cols) :
     LET v == IF cols[i] \in DOMAIN r THEN r[cols[i]] ELSE Null
     IN  ~IsNull(v) /\ includes(toLowerCase(JsString(v)), q)

\* FilterRows as it would be if the scan started at the second record.
FilterRows_fromSecondRow(rows, cols, q) ==
  IF rows = <<>> THEN <<>>
  ELSE SelectSeq(Tail(rows), LAMBDA r : RowMatches(r, cols, q))

FilterRows(rows, cols, q) == SelectSeq(rows, LAMBDA r : RowMatches(r, cols, q))

\* (searchEl.value || "").trim().toLowerCase()
QueryOf(value) == toLowerCase(trim(value))

\* setCountPill(filtered.length, lastRenderedRows.length), after renderTable
CountFiltered(s, filteredCount) ==
  setCountPill(s, filteredCount, Len(s.lastRenderedRows))

\* renderFiltered as it would be if the records to filter stayed
\* those of the last tab render.
renderFiltered_fromFullSet(s, filtered) ==
  [CountFiltered(renderTable(s, filtered, s.lastRenderedPhotoCol), Len(filtered))
     EXCEPT !.lastRenderedRows = s.lastRenderedRows,
            !.lastRenderedCols = s.lastRenderedCols]

\* renderTable(filtered, ...); setCountPill(...)
renderFiltered(s, filtered) ==
  CountFiltered(renderTable(s, filtered, s.lastRenderedPhotoCol), Len(filtered))

\* applySearchFilter as it would be if the empty-query re-render did not
\* pass the photo field on.
applySearchFilter_dropsPhotoCol(s) ==
  IF s.lastRenderedRows = <<>> \/ s.lastRenderedCols = <<>> THEN s
  ELSE IF QueryOf(s.searchValue) = <<>>
  THEN renderTable(s, s.lastRenderedRows, NoCol)
  ELSE renderFiltered(s, SelectSeq(s.lastRenderedRows,
         LAMBDA r : RowMatches(r, s.lastRenderedCols, QueryOf(s.searchValue))))

applySearchFilter(s) ==
  IF s.lastRenderedRows = <<>> \/ s.lastRenderedCols = <<>> THEN s
  ELSE IF QueryOf(s.searchValue) = <<>>
  THEN renderTable(s, s.lastRenderedRows, s.lastRenderedPhotoCol)
  ELSE renderFiltered(s, FilterRows(s.lastRenderedRows, s.lastRenderedCols,
                                    QueryOf(s.searchValue)))

\* setActiveTab as it would be without  searchEl.value = ""
setActiveTab_keepsSearch(s, tab) == [s EXCEPT !.currentTab = tab]

setActiveTab(s, tab) == [s EXCEPT !.currentTab = tab, !.searchValue = <<>>]

(***************************************************************************)
(* renderTab. Every statement the handler executes is appended to s.sql:   *)
(* a schema probe (hasTable), a record query, or a count. The page is      *)
(* handed from one step of the handler to the next as a parameter.         *)
(***************************************************************************)
Logged(s, op, tables) == [s EXCEPT !.sql = Append(@, [op |-> op, tables |-> tables])]

\* hasTable(a) && hasTable(b) && ...: the probes run until one fails.
RECURSIVE ProbeAll(_, _)
ProbeAll(s, names) ==
  IF names = <<>> THEN [s |-> s, has |-> TRUE]
  ELSE IF hasTable(s.db, Head(names))
  THEN ProbeAll(Logged(s, "probe", {Head(names)}), Tail(names))
  ELSE [s |-> Logged(s, "probe", {Head(names)}), has |-> FALSE]

Warn(s, msg, statusText) ==
  setStatus(setCountPill(Gc([s EXCEPT !.view = View("warn", msg)]), 0, 0), statusText, "warn")

\* catch (err) { setStatus(...); viewEl.innerHTML = ...; setCountPill(0, 0) }
Catch(s, tab) ==
  setCountPill(Gc([setStatus(s, "Error rendering " \o tab, "err")
                     EXCEPT !.view = View("err", "Error")]), 0, 0)

\* rows = mapDateColumns(rows, Object.keys(rows[0] || {})); renderTable(rows,
\* ...); setStatus(...), or the catch when the query q threw
showRows(s, q, tab, photoPathKey, statusText) ==
  IF q.err THEN Catch(s, tab)
  ELSE setStatus(renderTable(s, mapDateColumns(q.rows, KeysOfFirst(q.rows)), photoPathKey),
                 statusText, "ok")

\* The cattle branch after its hasTable check, p.
cattleProbed(p) ==
  IF ~p.has
  THEN Warn(p.s, "This backup doesn't have the cattle table.", "Cattle table missing.")
  ELSE showRows(Logged(p.s, "select", {"cattle"}), CattleQuery(p.s.db),
                "cattle", "photo_path", "Loaded Cattle.")

\* renderCattle as it would be without the hasTable("cattle") check.
renderCattle_unchecked(s) ==
  showRows(Logged(s, "select", {"cattle"}), CattleQuery(s.db),
           "cattle", "photo_path", "Loaded Cattle.")

renderCattle(s) == cattleProbed(ProbeAll(s, <<"cattle">>))

\* The feed branch after its hasTable checks, p.
feedProbed(p) ==
  IF ~p.has
  THEN Warn(p.s, "This backup doesn't have feed tables yet.", "Feed tables missing.")
  ELSE showRows(Logged(p.s, "select", {"feed_entries", "feed_lots"}), FeedQuery(p.s.db),
                "feed", NoCol, "Loaded Feed (recent first).")

renderFeed(s) == feedProbed(ProbeAll(s, <<"feed_entries", "feed_lots">>))

PooledTables ==
  <<"feed_inventory_pools", "feed_inventory_pool_txns", "feed_storages", "feed_lots">>

LegacyTables ==
  <<"feed_inventory_lots", "feed_inventory_txns", "feed_storages", "feed_lots">>

\* hasX ? queryAll(SELECT (SELECT COUNT(*) ...) ...)[0] : {...: 0}
countsQueried(s, has, tables) == IF has THEN Logged(s, "count", tables) ELSE s

diagnosticCounts(d, hasPooled, hasLegacy) ==
  <<IF hasPooled THEN Count(d, "feed_inventory_pools") ELSE 0,
    IF hasPooled THEN Count(d, "feed_inventory_pool_txns") ELSE 0,
    IF hasLegacy THEN Count(d, "feed_inventory_lots") ELSE 0,
    IF hasLegacy THEN Count(d, "feed_inventory_txns") ELSE 0>>

\* The diagnostics block, after neither snapshot gave a row.
inventoryDiagnostics(s, hasPooled, hasLegacy) ==
  setStatus(
    setCountPill(
      Gc([countsQueried(
            countsQueried(s, hasPooled,
                          {"feed_inventory_pools", "feed_inventory_pool_txns"}),
            hasLegacy, {"feed_inventory_lots", "feed_inventory_txns"})
          EXCEPT !.view = [View("diag", "No inventory totals to show.")
                             EXCEPT !.counts = diagnosticCounts(s.db, hasPooled, hasLegacy)]]),
      0, 0),
    "Inventory: no totals available.", "warn")

\* if (legacySnapshot.length > 0) { renderTable; setStatus; return }, then the
\* diagnostics; q is the legacy snapshot, or no rows when it was not queried.
legacyQueried(s, q, hasPooled, hasLegacy) ==
  IF q.err THEN Catch(s, "inventory")
  ELSE IF Len(q.rows) > 0
  THEN setStatus(renderTable(s, q.rows, NoCol),
                 "Loaded Inventory snapshot (legacy batches).", "ok")
  ELSE inventoryDiagnostics(s, hasPooled, hasLegacy)

\* inventoryLegacy as it would be if pooled tables that give no row went
\* straight to the diagnostics, without trying the legacy ledger.
inventoryLegacy_pooledEndsHere(s, hasPooled, hasLegacy) ==
  legacyQueried(IF hasLegacy /\ ~hasPooled
                THEN Logged(s, "select", SeqRange(LegacyTables)) ELSE s,
                IF hasLegacy /\ ~hasPooled THEN legacySnapshot(s.db) ELSE Rows(<<>>),
                hasPooled, hasLegacy)

\* From the legacy fallback on: reached when pooled is absent or gave no row.
inventoryLegacy(s, hasPooled, hasLegacy) ==
  legacyQueried(IF hasLegacy THEN Logged(s, "select", SeqRange(LegacyTables)) ELSE s,
                IF hasLegacy THEN legacySnapshot(s.db) ELSE Rows(<<>>),
                hasPooled, hasLegacy)

\* if (pooledSnapshot.length > 0) { renderTable; setStatus; return }, then the
\* fallback; q is the pooled snapshot, or no rows when it was not queried.
pooledQueried(s, q, hasPooled, hasLegacy) ==
  IF q.err THEN Catch(s, "inventory")
  ELSE IF Len(q.rows) > 0
  THEN setStatus(renderTable(s, q.rows, NoCol), "Loaded Inventory snapshot (pooled).", "ok")
  ELSE inventoryLegacy(s, hasPooled, hasLegacy)

\* The inventory branch after hasPooled and hasLegacy (pl.has) are known.
inventoryProbed(pl, hasPooled) ==
  pooledQueried(IF hasPooled
                THEN Logged(pl.s, "select", SeqRange(PooledTables)) ELSE pl.s,
                IF hasPooled THEN pooledSnapshot(pl.s.db) ELSE Rows(<<>>),
                hasPooled, pl.has)

\* const hasLegacy = ..., after hasPooled (pp.has)
pooledProbed(pp) == inventoryProbed(ProbeAll(pp.s, LegacyTables), pp.has)

renderInventory(s) == pooledProbed(ProbeAll(s, PooledTables))

BreedingView(sessions) == [View("breeding", "") EXCEPT !.sessions = sessions]

\* The breeding branch from  viewEl.innerHTML = ...  on
breedingShown(s, sessions, exposures) ==
  IF exposures = <<>>
  THEN setStatus(setCountPill(Gc([s EXCEPT !.view = BreedingView(sessions),
                                           !.lastRenderedRows = <<>>,
                                           !.lastRenderedCols = <<>>,
                                           !.lastRenderedPhotoCol = NoCol]), 0, 0),
                 "Loaded Breeding (no exposures).", "ok")
  ELSE setStatus(
         Gc(FillPhotos(
              ShowTable(setCountPill([s EXCEPT !.lastRenderedRows = exposures,
                                               !.lastRenderedCols = ObjectKeys(exposures[1]),
                                               !.lastRenderedPhotoCol = "cow_photo_path"],
                                     Len(exposures), Len(exposures)),
                        [BreedingView(sessions) EXCEPT !.rows = exposures,
                                                       !.cols = ObjectKeys(exposures[1]),
                                                       !.photoCol = "cow_photo_path"],
                        PhotoCells(exposures, "cow_photo_path")),
              "cow_photo_path")),
         "Loaded Breeding (sessions + exposures).", "ok")

\* The breeding branch after the sessions query, qs, and the exposures
\* query, qe, which runs only when the first did not throw.
breedingQueried(s, qs, qe) ==
  IF qs.err THEN Catch(s, "breeding")
  ELSE IF qe.err THEN Catch(Logged(s, "select", {"breeding_exposures"}), "breeding")
  ELSE breedingShown(Logged(s, "select", {"breeding_exposures"}),
                     mapDateColumns(qs.rows, KeysOfFirst(qs.rows)),
                     mapDateColumns(qe.rows, KeysOfFirst(qe.rows)))

\* The breeding branch after its hasTable checks, p.
breedingProbed(p) ==
  IF ~p.has
  THEN Warn(p.s, "This backup doesn't have breeding tables yet.",
            "Breeding tables missing.")
  ELSE breedingQueried(Logged(p.s, "select", {"breeding_sessions"}),
                       SessionsQuery(p.s.db), ExposuresQuery(p.s.db))

renderBreeding(s) ==
  breedingProbed(ProbeAll(s, <<"breeding_sessions", "breeding_exposures">>))

Tabs == {"cattle", "feed", "inventory", "breeding"}

\* try { if (tab === "cattle") ... } after setActiveTab(tab)
renderBranch(s, tab) ==
  CASE tab = "cattle"    -> renderCattle(s)
    [] tab = "feed"      -> renderFeed(s)
    [] tab = "inventory" -> renderInventory(s)
    [] tab = "breeding"  -> renderBreeding(s)
    [] OTHER -> Warn(s, "Unknown tab", "Unknown tab.")

renderTab(s0, tab) == renderBranch(setActiveTab([s0 EXCEPT !.sql = <<>>], tab), tab)

(***************************************************************************)
(* The state machine.                                                      *)
(*   uiShown       the tab strip, toolbar and view card are displayed      *)
(*   tabsWired, tabListeners   wireTabsOnce's flag and the click listeners *)
(*                 registered on the tab strip                             *)
(*   loads         the loadFromZipFile calls suspended at an await         *)
(*   picks         history, not program state: the files picked so far     *)
(*   lastHandler   history, not program state: the last handler that       *)
(*                 rendered (a tab click, a search input, the end of a     *)
(*                 load), with the query in the search box and the number  *)
(*                 of last-rendered records when it began                  *)
(***************************************************************************)
VARIABLES db, zipIndex, currentTab, lastRenderedRows, lastRenderedCols,
          lastRenderedPhotoCol, searchValue, countPill, status, view, dom, tasks,
          sql, uiShown, tabsWired, tabListeners, loads, picks, lastHandler

vars == <<db, zipIndex, currentTab, lastRenderedRows, lastRenderedCols,
          lastRenderedPhotoCol, searchValue, countPill, status, view, dom, tasks,
          sql, uiShown, tabsWired, tabListeners, loads, picks, lastHandler>>

wiringVars == <<uiShown, tabsWired, tabListeners>>

\* The most photo loops in flight at once.
MaxTasks == 1

\* The most files picked in one run of the page.
MaxPicks == 2

\* What the user can type into the search box.
SearchInputs ==
  {<<>>, <<" ", " ">>, <<"B", "7", " ">>, <<"n">>, <<"q">>}

Cur ==
  [db |-> db, zipIndex |-> zipIndex, currentTab |-> currentTab,
   lastRenderedRows |-> lastRenderedRows, lastRenderedCols |-> lastRenderedCols,
   lastRenderedPhotoCol |-> lastRenderedPhotoCol, searchValue |-> searchValue,
   countPill |-> countPill, status |-> status, view |-> view, dom |-> dom,
   tasks |-> tasks, sql |-> sql]

Install(s) ==
  /\ db' = s.db
  /\ zipIndex' = s.zipIndex
  /\ currentTab' = s.currentTab
  /\ lastRenderedRows' = s.lastRenderedRows
  /\ lastRenderedCols' = s.lastRenderedCols
  /\ lastRenderedPhotoCol' = s.lastRenderedPhotoCol
  /\ searchValue' = s.searchValue
  /\ countPill' = s.countPill
  /\ status' = s.status
  /\ view' = s.view
  /\ dom' = s.dom
  /\ tasks' = s.tasks
  /\ sql' = s.sql

\* The handler's result becomes the page; the photo loops in flight stay
\* within MaxTasks.
InstallWithin(s) == Cardinality(s.tasks) <= MaxTasks /\ Install(s)

Handler(op, tab, before) ==
  [op |-> op, tab |-> tab, prevQ |-> QueryOf(before.searchValue),
   prevTotal |-> Len(before.lastRenderedRows)]

\* The page before any file is picked.
Page0 ==
  [db |-> NullDb, zipIndex |-> NoZip, currentTab |-> "cattle",
   lastRenderedRows |-> <<>>, lastRenderedCols |-> <<>>, lastRenderedPhotoCol |-> NoCol,
   searchValue |-> <<>>, countPill |-> <<>>, status |-> [text |-> "", cls |-> "muted"],
   view |-> View("blank", ""), dom |-> << >>, tasks |-> {}, sql |-> <<>>]

PageIs(s) ==
  /\ db = s.db
  /\ zipIndex = s.zipIndex
  /\ currentTab = s.currentTab
  /\ lastRenderedRows = s.lastRenderedRows
  /\ lastRenderedCols = s.lastRenderedCols
  /\ lastRenderedPhotoCol = s.lastRenderedPhotoCol
  /\ searchValue = s.searchValue
  /\ countPill = s.countPill
  /\ status = s.status
  /\ view = s.view
  /\ dom = s.dom
  /\ tasks = s.tasks
  /\ sql = s.sql

Init ==
  /\ PageIs(Page0)
  /\ uiShown = FALSE
  /\ tabsWired = FALSE
  /\ tabListeners = 0
  /\ loads = <<>>
  /\ picks = 0
  /\ lastHandler = Handler("none", "", Page0)

RemoveAt(q, i) == [j \in 1..(Len(q) - 1) |-> IF j < i THEN q[j] ELSE q[j + 1]]

\* inputEl "change": loadFromZipFile up to  await file.arrayBuffer()
PickFile(a) ==
  /\ picks < MaxPicks
  /\ picks' = picks + 1
  /\ Install(setStatus(Cur, "Reading zip...", ""))
  /\ loads' = Append(loads, [file |-> a, phase |-> "reading"])
  /\ UNCHANGED <<wiringVars, lastHandler>>

\* [...zipIndex.entries()].find(([name]) => name.split("/").pop() === "ranch.db")
HasDbEntry(a) == \E path \in DOMAIN ZipEntries(a) : BaseName(path) = RanchDb

DbEntry(a) == CHOOSE path \in DOMAIN ZipEntries(a) : BaseName(path) = RanchDb

\* loadFromZipFile from JSZip.loadAsync to  await dbEntry[1].async(...), or to
\* the catch of the change listener
LoadIndexed(i) ==
  /\ i \in 1..Len(loads)
  /\ loads[i].phase = "reading"
  /\ LET a == loads[i].file
     IN  IF ~ArchiveOf(a).isZip
         THEN /\ Install(setStatus(Cur, "Error: not a zip", "err"))
              /\ loads' = RemoveAt(loads, i)
         ELSE LET s1 == [Cur EXCEPT !.zipIndex = a]
              IN  IF ~HasDbEntry(a)
                  THEN /\ Install(setStatus(s1, "Error: ZIP missing ranch.db", "err"))
                       /\ loads' = RemoveAt(loads, i)
                  ELSE /\ Install(setStatus(s1, "Loading ranch.db into SQLite (WASM)...", ""))
                       /\ loads' = [loads EXCEPT ![i].phase = "opening"]
  /\ UNCHANGED <<wiringVars, picks, lastHandler>>

\* renderTab once for every click listener on the tab strip
RECURSIVE renderTabTimes(_, _, _)
renderTabTimes(s, tab, n) ==
  IF n = 0 THEN s ELSE renderTabTimes(renderTab(s, tab), tab, n - 1)

\* db = new SQL.Database(dbBytes); await renderTab("cattle"); setStatus(...)
openDatabase(s, a) ==
  setStatus(renderTab([s EXCEPT !.db = ArchiveOf(a).database], "cattle"),
            "Loaded. (All local, nothing uploaded.)", "ok")

\* wireTabsOnce as it would be without  if (tabsWired) return : a click
\* listener added by every load.
wireTabs_everyLoad(wired, listeners) == listeners + 1

\* if (tabsWired) return; tabsWired = true; ...addEventListener("click", ...)
wireTabsOnce(wired, listeners) == IF wired THEN listeners ELSE listeners + 1

\* loadFromZipFile from  new SQL.Database(dbBytes)  to its end, or the catch
LoadOpened(i) ==
  /\ i \in 1..Len(loads)
  /\ loads[i].phase = "opening"
  /\ loads' = RemoveAt(loads, i)
  /\ UNCHANGED picks
  /\ IF ZipEntries(loads[i].file)[DbEntry(loads[i].file)] # "ok"
     THEN /\ Install(setStatus(Cur, "Error: corrupted zip", "err"))
          /\ UNCHANGED <<wiringVars, lastHandler>>
     ELSE /\ InstallWithin(openDatabase(Cur, loads[i].file))
          /\ uiShown' = TRUE
          /\ tabsWired' = TRUE
          /\ tabListeners' = wireTabsOnce(tabsWired, tabListeners)
          /\ lastHandler' = Handler("load", "cattle", Cur)

\* a click on a tab button
TabClick(tab) ==
  /\ uiShown
  /\ tabListeners > 0
  /\ InstallWithin(renderTabTimes(Cur, tab, tabListeners))
  /\ lastHandler' = Handler("tab", tab, Cur)
  /\ UNCHANGED <<wiringVars, loads, picks>>

\* searchEl "input": the box holds value, then applySearchFilter()
SearchInput(value) ==
  /\ uiShown
  /\ InstallWithin(applySearchFilter([Cur EXCEPT !.searchValue = value, !.sql = <<>>]))
  /\ lastHandler' = Handler("input", "", Cur)
  /\ UNCHANGED <<wiringVars, loads, picks>>

\* PhotoLoopResumed as it would be if the loop looked its images up in the
\* view again when it resumes: the cells go to the displayed table.
PhotoLoopResumed_intoDisplayed(s, t, l) ==
  [s EXCEPT !.dom = [i \in DOMAIN @ |-> IF i = s.view.tid THEN l.cells ELSE @[i]],
            !.tasks = IF l.waiting
                      THEN @ \cup {[t EXCEPT !.pos = l.pos, !.zip = s.zipIndex,
                                              !.path = l.cells[t.imgs[l.pos]].photo]}
                      ELSE @]

\* img.src = url has been done for the image the loop t waited on, and the
\* loop has run on, l, to its next suspension or to its end.
PhotoLoopResumed(s, t, l) ==
  [s EXCEPT !.dom = [@ EXCEPT ![t.tid] = l.cells],
            !.tasks = IF l.waiting
                      THEN @ \cup {[t EXCEPT !.pos = l.pos, !.zip = s.zipIndex,
                                              !.path = l.cells[t.imgs[l.pos]].photo]}
                      ELSE @]

\* A photo loop resumes: entry.async(...) has delivered the bytes, or has
\* rejected, which ends the loop where it stands.
PhotoResume(t) ==
  /\ t \in tasks
  /\ Install(Gc(IF ZipEntries(t.zip)[t.path] # "ok"
                THEN [Cur EXCEPT !.tasks = @ \ {t}]
                ELSE PhotoLoopResumed(
                       [Cur EXCEPT !.tasks = @ \ {t}], t,
                       PhotoLoop(zipIndex,
                                 [dom[t.tid] EXCEPT ![t.imgs[t.pos]] =
                                    WithSrc(@, BlobUrl(t.zip, t.path))],
                                 t.imgs, t.pos + 1))))
  /\ UNCHANGED <<wiringVars, loads, picks, lastHandler>>

\* The backups the user picks from under Spec.
BackupFiles == {Fixed("full"), Fixed("old"), Fixed("bare")}

Next ==
  \/ \E a \in BackupFiles : PickFile(a)
  \/ \E i \in 1..MaxPicks : LoadIndexed(i)
  \/ \E i \in 1..MaxPicks : LoadOpened(i)
  \/ \E tab \in Tabs : TabClick(tab)
  \/ \E value \in SearchInputs : SearchInput(value)
  \/ \E t \in tasks : PhotoResume(t)

Spec == Init /\ [][Next]_vars

(***************************************************************************)
(* Specifications that start from the page as one completed load of a      *)
(* generated archive leaves it, to range over database contents.           *)
(***************************************************************************)
InitLoaded(files) ==
  /\ \E a \in files : PageIs(openDatabase([Page0 EXCEPT !.zipIndex = a], a))
  /\ uiShown = TRUE
  /\ tabsWired = TRUE
  /\ tabListeners = 1
  /\ loads = <<>>
  /\ picks = 1
  /\ lastHandler = Handler("load", "cattle", Page0)

\* The longest generated ledger.
MaxTxns == 2

TxnTypes == {ADD, <<"r", "e", "m", "o", "v", "e">>, <<"A", "d", "j", "u", "s", "t">>, <<"S", "P", "O", "I", "L">>}

TxnQtys == {IntV(100), IntV(30), IntV(0 - 5), DecV(4)}

TxnChoices == {<<1, ty, q>> : ty \in TxnTypes, q \in TxnQtys}

Ledgers == UNION {[1..k -> TxnChoices] : k \in 0..MaxTxns}

\* The scenario of the specification: ADD 100, REMOVE 30, ADJUST -5.
ScenarioLedger == <<<<1, ADD, IntV(100)>>, <<1, REMOVE, IntV(30)>>, <<1, ADJUST, IntV(0 - 5)>>>>

OtherHolderTxn == <<2, ADD, IntV(7)>>

OrphanTxn == <<9, ADD, IntV(7)>>

RichSides ==
  {Side(TRUE, l \o extra) : l \in Ledgers \cup {ScenarioLedger},
                            extra \in {<<>>, <<OtherHolderTxn>>}}

SmallSides ==
  {Side(FALSE, <<>>), Side(TRUE, <<>>), Side(TRUE, <<OtherHolderTxn>>),
   Side(TRUE, <<OrphanTxn>>)}

InvFiles ==
  {InvFile(TRUE, p, l) : p \in RichSides, l \in SmallSides}
  \cup {InvFile(TRUE, p, l) : p \in SmallSides, l \in RichSides}
  \cup {InvFile(FALSE, p, l) : p \in SmallSides, l \in SmallSides}

InitInv == InitLoaded(InvFiles)

NextInv == \E tab \in {"inventory"} : TabClick(tab)

SpecInv == InitInv /\ [][NextInv]_vars

\* Rows beyond a query's LIMIT that the generated tables go up to.
MaxOver == 1

\* Every small combination of table sizes, and each table on its own at its
\* query's LIMIT and beyond it.
SmallSizes == 0..2

CapFiles ==
  {CapFile(c, f, n, e) : c \in SmallSizes, f \in 0..1, n \in 0..1, e \in SmallSizes}
  \cup {CapFile(SessionLimit + k, 1, 1, 1) : k \in 0..MaxOver}
  \cup {CapFile(1, FeedLimit + k, 1, 1) : k \in 0..MaxOver}
  \cup {CapFile(1, 1, SessionLimit + k, 1) : k \in 0..MaxOver}
  \cup {CapFile(1, 1, 1, ExposureLimit + k) : k \in 0..MaxOver}

InitCap == InitLoaded(CapFiles)

NextCap ==
  \/ \E tab \in Tabs : TabClick(tab)
  \/ \E t \in tasks : PhotoResume(t)

SpecCap == InitCap /\ [][NextCap]_vars

(***************************************************************************)
(* The loads that can go wrong: besides a complete backup, a backup whose  *)
(* roster query throws, an archive without ranch.db, an archive whose      *)
(* ranch.db cannot be extracted, and a file that is not a zip.             *)
(***************************************************************************)
LoadFiles == {Fixed("full"), Fixed("odd"), Fixed("nodb"), Fixed("torn"), Fixed("notzip")}

NextLoad ==
  \/ \E a \in LoadFiles : PickFile(a)
  \/ \E i \in 1..MaxPicks : LoadIndexed(i)
  \/ \E i \in 1..MaxPicks : LoadOpened(i)
  \/ \E tab \in Tabs : TabClick(tab)
  \/ \E t \in tasks : PhotoResume(t)

SpecLoad == Init /\ [][NextLoad]_vars

(***************************************************************************)
(* Inventory claims, under SpecInv. There zipIndex names the generated     *)
(* archive that was loaded, so the ledgers are read from it, not from the  *)
(* query's result. Holder 1 is in Barn A and holder 2 in Shed, so each     *)
(* holder that exists and has a transaction is one group.                  *)
(***************************************************************************)
InventoryShown == lastHandler.op = "tab" /\ lastHandler.tab = "inventory"

QuadruplePresent(side) == zipIndex.shared /\ side.present

HoldersWithTxns(side) == {side.txns[i][1] : i \in 1..Len(side.txns)} \cap {1, 2}

AggregationRows(side) == Cardinality(HoldersWithTxns(side))

ExpectedOutcome ==
  IF QuadruplePresent(zipIndex.pooled) /\ AggregationRows(zipIndex.pooled) >= 1
  THEN "pooled"
  ELSE IF QuadruplePresent(zipIndex.legacy) /\ AggregationRows(zipIndex.legacy) >= 1
  THEN "legacy"
  ELSE "diagnostic"

ObservedOutcome ==
  CASE view.kind = "table" /\ status.text = "Loaded Inventory snapshot (pooled)." -> "pooled"
    [] view.kind = "table" /\ status.text = "Loaded Inventory snapshot (legacy batches)."
         -> "legacy"
    [] view.kind = "diag" /\ status.text = "Inventory: no totals available." -> "diagnostic"
    [] OTHER -> "other"

RECURSIVE LedgerSum(_, _)
LedgerSum(txns, holder) ==
  IF txns = <<>> THEN 0
  ELSE LET t == Head(txns)
           kind == toLowerCase(t[2])
           term == IF t[1] # holder THEN 0
                   ELSE IF kind \in {<<"a", "d", "d">>, <<"a", "d", "j", "u", "s", "t">>} THEN Scaled(t[3])
                   ELSE IF kind = <<"r", "e", "m", "o", "v", "e">> THEN 0 - Scaled(t[3])
                   ELSE 0
       IN  term + LedgerSum(Tail(txns), holder)

HolderOf(row) == IF row.storage = StrV(BarnA) THEN 1 ELSE 2

ShownSide == IF ObservedOutcome = "pooled" THEN zipIndex.pooled ELSE zipIndex.legacy

\* The multiple of a thousandth nearest to x (x in ten-thousandths).
NearestThousandth(x) ==
  CHOOSE r \in {10 * ((x \div 10) + d) : d \in {0, 1}} :
    \A o \in {10 * ((x \div 10) + d) : d \in {0, 1}} : Abs(r - x) <= Abs(o - x)

\* C2 as amended: the on_hand of every row of the snapshot, pooled or legacy,
\* is the signed sum of its group's transactions rounded to three decimals.
C2_OnHandRounded ==
  InventoryShown /\ ObservedOutcome \in {"pooled", "legacy"} =>
    \A i \in 1..Len(view.rows) :
       view.rows[i].on_hand =
         DecV(NearestThousandth(LedgerSum(ShownSide.txns, HolderOf(view.rows[i]))))

\* C2 as stated: on_hand is the signed sum itself.
C2_OnHandExact ==
  InventoryShown /\ ObservedOutcome \in {"pooled", "legacy"} =>
    \A i \in 1..Len(view.rows) :
       view.rows[i].on_hand = DecV(LedgerSum(ShownSide.txns, HolderOf(view.rows[i])))

\* The scenario: ADD 100, REMOVE 30, ADJUST -5 shows Barn A / Hay / bales / 65.
C2_Witness ==
  /\ InventoryShown
  /\ ObservedOutcome = "pooled"
  /\ zipIndex.pooled.txns = ScenarioLedger
  /\ view.rows = <<[storage |-> StrV(BarnA), feed_type |-> StrV(Hay), unit |-> StrV(Bales),
                    on_hand |-> DecV(65 * DecScale)]>>
  /\ JsString(view.rows[1].on_hand) = <<"6", "5">>

(***************************************************************************)
(* Filter claims, under Spec. lastHandler tells which handler rendered     *)
(* last and what the search box and the last-rendered set held when it     *)
(* began.                                                                  *)
(***************************************************************************)
\* A search input that leaves the query as the previous search input left it.
SameQueryAgain(value) ==
  /\ lastHandler.op = "input"
  /\ QueryOf(searchValue) # <<>>
  /\ QueryOf(value) = QueryOf(searchValue)
  /\ SearchInput(value)

\* C3: applying the filter a second time with the same non-empty query, with
\* no tab switch in between, leaves the displayed records as the first
\* application left them.
C3_FilterIdempotent ==
  [][\A value \in SearchInputs :
       SameQueryAgain(value) => DisplayedRows(view') = DisplayedRows(view)]_vars

\* C3's case: the roster of three narrowed to one record by a query, and the
\* same query applied again to that one record.
C3_Witness ==
  /\ lastHandler.op = "input"
  /\ lastHandler.prevQ # <<>>
  /\ lastHandler.prevQ = QueryOf(searchValue)
  /\ zipIndex = Fixed("full")
  /\ currentTab = "cattle"
  /\ Len(db.tables["cattle"].rows) = 3
  /\ Len(DisplayedRows(view)) = 1
  /\ lastHandler.prevTotal = 1

\* A search input whose query is empty or only white space.
BlankInput(value) == QueryOf(value) = <<>> /\ SearchInput(value)

\* C4: a search input with an empty or white-space-only query displays
\* exactly the last-rendered records, in their order and with their photo
\* field, and leaves the last-rendered records, fields and photo field, the
\* tab, the database and the status as they were.
C4_ClearRestoresLastRendered ==
  [][\A value \in SearchInputs :
       BlankInput(value) =>
         /\ DisplayedRows(view') = lastRenderedRows
         /\ lastRenderedRows # <<>> =>
              view'.kind = "table" /\ view'.photoCol = lastRenderedPhotoCol
         /\ lastRenderedRows = <<>> => view' = view
         /\ UNCHANGED <<lastRenderedRows, lastRenderedCols, lastRenderedPhotoCol,
                        currentTab, db, zipIndex, status>>]_vars

\* C4's case: the query is cleared after a filter had narrowed the roster,
\* which has a photo field, and the narrowed set is what is displayed.
C4_Witness ==
  /\ lastHandler.op = "input"
  /\ lastHandler.prevQ # <<>>
  /\ QueryOf(searchValue) = <<>>
  /\ zipIndex = Fixed("full")
  /\ currentTab = "cattle"
  /\ view.kind = "table"
  /\ Len(view.rows) = 1
  /\ view.rows = lastRenderedRows
  /\ view.photoCol = "photo_path"
  /\ countPill = CountText(1, 1)

\* renderTab has completed and no search input has followed.
AfterRenderTab == lastHandler.op \in {"tab", "load"}

\* C5: after every completed renderTab, on every path, the search box is
\* empty and the row count shows the number of records of the new view,
\* unfiltered: 0 on the notice, diagnostic and error paths.
C5_TabSwitchClearsSearch ==
  AfterRenderTab =>
    /\ searchValue = <<>>
    /\ countPill = CountText(Len(DisplayedRows(view)), Len(DisplayedRows(view)))
    /\ view.kind \in {"warn", "diag", "err", "norows"} => countPill = CountText(0, 0)
    /\ view.kind = "table" /\ currentTab = "cattle" =>
         countPill = CountText(Len(db.tables["cattle"].rows), Len(db.tables["cattle"].rows))

\* C5's case: a tab is clicked while a query is in the search box and the
\* filter has narrowed the set; the new view shows more records than that.
C5_Witness ==
  /\ lastHandler.op = "tab"
  /\ lastHandler.prevQ # <<>>
  /\ Len(DisplayedRows(view)) > lastHandler.prevTotal
  /\ searchValue = <<>>

\* C6: after every completed renderTab, on every path, the last-rendered
\* records are the records the new view displays as its filterable table.
C6_LastRenderedReset ==
  AfterRenderTab => lastRenderedRows = DisplayedRows(view)

\* C7: after a search input with a non-empty query applied to T last-rendered
\* records of which F match, the row count reads "F / T rows" when F differs
\* from T and "T rows" when they are equal.
C7_FilteredOfTotal ==
  lastHandler.op = "input" /\ QueryOf(searchValue) # <<>> /\ lastHandler.prevTotal > 0 =>
    countPill = CountText(Len(DisplayedRows(view)), lastHandler.prevTotal)

\* C8: the records a tab's entry action hands to the renderer are no more
\* than the view's cap: 200 for the roster, 2000 for the feed log, 200 for
\* the breeding sessions and 500 for the breeding exposures.
C8_ResultCaps ==
  AfterRenderTab =>
    /\ currentTab = "cattle" => Len(DisplayedRows(view)) <= 200
    /\ currentTab = "feed" => Len(DisplayedRows(view)) <= 2000
    /\ currentTab = "breeding" => Len(view.sessions) <= 200 /\ Len(view.rows) <= 500

(***************************************************************************)
(* Missing tables and photos, under Spec. sql holds the statements the     *)
(* last renderTab executed.                                                *)
(***************************************************************************)
Absent(names) == \E n \in names : ~hasTable(db, n)

\* The last renderTab executed a statement of one of the kinds ops.
Ran(ops) == \E i \in 1..Len(sql) : sql[i].op \in ops

\* A notice in place of the table, a row count of 0, and no error state.
NoticeShown ==
  /\ view.kind \in {"warn", "diag"}
  /\ DisplayedRows(view) = <<>>
  /\ countPill = CountText(0, 0)
  /\ status.cls # "err"

\* Feed or breeding entered with a required table absent, or inventory with
\* neither quadruple complete: a notice, no record query, no error.
MissingTablesHandled ==
  /\ currentTab = "feed" /\ Absent({"feed_entries", "feed_lots"}) =>
       NoticeShown /\ ~Ran({"select", "count"})
  /\ currentTab = "breeding" /\ Absent({"breeding_sessions", "breeding_exposures"}) =>
       NoticeShown /\ ~Ran({"select", "count"})
  /\ currentTab = "inventory" /\ Absent(SeqRange(PooledTables))
                              /\ Absent(SeqRange(LegacyTables)) =>
       NoticeShown /\ ~Ran({"select", "count"})

LoopOver == \A t \in tasks : t.tid # view.tid

\* C10: once the photo loop of the displayed table is over, every image cell
\* shows its photo or has been replaced by the missing indicator: no row is
\* left with an <img> that was never resolved.
C10_PhotoFailuresIndependent ==
  view.kind \in {"table", "breeding"} /\ view.tid \in DOMAIN dom /\ LoopOver =>
    \A r \in 1..Len(dom[view.tid]) :
       dom[view.tid][r].kind = "img" => dom[view.tid][r].src # <<>>

\* The bytes of ranch.db have been read for load number i: what remains of
\* loadFromZipFile opens the database and renders the default tab.
DbBytesRead(i) ==
  /\ i \in 1..Len(loads)
  /\ loads[i].phase = "opening"
  /\ ZipEntries(loads[i].file)[DbEntry(loads[i].file)] = "ok"

\* A user action that renders a tab runs to its end: a tab click, or a load
\* from the opening of its database on.
RenderingActionEnds ==
  \/ \E tab \in Tabs : TabClick(tab)
  \/ \E i \in 1..MaxPicks : DbBytesRead(i) /\ LoadOpened(i)

\* C11: when a user action that renders a tab ends with the inline error
\* block in the view, the status line reports the render error and the row
\* count is 0, whether the render came from a tab click or from the end of
\* a load.
C11_RenderErrorReported ==
  [][RenderingActionEnds /\ view'.kind = "err" =>
       /\ status' = [text |-> "Error rendering " \o currentTab', cls |-> "err"]
       /\ countPill' = CountText(0, 0)]_vars

\* No entry of the archive is a file named ranch.db, in the root or in a
\* folder.
NoRanchDbFile(a) ==
  \A path \in DOMAIN ZipEntries(a) :
     path # RanchDb /\ ~endsWith(path, <<Slash>> \o RanchDb)

\* Load number i is about to look for ranch.db in a zip that has none.
LooksForMissingDb(i) ==
  /\ i \in 1..Len(loads)
  /\ loads[i].phase = "reading"
  /\ ArchiveOf(loads[i].file).isZip
  /\ NoRanchDbFile(loads[i].file)

\* C12: a load of a zip with no file whose base name is ranch.db ends at
\* the search for it: the status line shows the error, the attempt is over
\* without a render (no statement run, the view, the active tab and the row
\* count as they were), and the tab strip, toolbar and view card are no more
\* visible than before.
C12_MissingDbFatal ==
  [][\A i \in 1..MaxPicks :
       LooksForMissingDb(i) /\ LoadIndexed(i) =>
         /\ status' = [text |-> "Error: ZIP missing ranch.db", cls |-> "err"]
         /\ loads' = RemoveAt(loads, i)
         /\ UNCHANGED <<uiShown, tabsWired, tabListeners, view, currentTab, countPill,
                        sql, db, lastRenderedRows, lastHandler>>]_vars

\* C12's case: the first file picked was a zip without ranch.db, and its
\* load is over.
C12_Witness ==
  /\ picks = 1
  /\ loads = <<>>
  /\ zipIndex = Fixed("nodb")
  /\ status = [text |-> "Error: ZIP missing ranch.db", cls |-> "err"]
  /\ ~uiShown
  /\ view.kind = "blank"

\* C13: a filter input made while the breeding view shows its two panels
\* leaves the sessions panel displayed as it was, next to the exposures
\* table, which then shows the exposure records that match.
C13_SessionsPanelKept ==
  [][(\E value \in SearchInputs : SearchInput(value))
       /\ currentTab = "breeding" /\ view.kind = "breeding" =>
         /\ view'.kind = "breeding"
         /\ view'.sessions = view.sessions]_vars

\* Some field of r, among cols, is not null and its lower-cased text
\* contains the trimmed, lower-cased value.
SomeFieldContains(r, cols, value) ==
  \E c \in SeqRange(cols) :
     /\ c \in DOMAIN r
     /\ r[c] # Null
     /\ LET text == toLowerCase(JsString(r[c]))
            q == toLowerCase(trim(value))
        IN  \E i \in 0..(Len(text) - Len(q)) : SubSeq(text, i + 1, i + Len(q)) = q

\* The k-th smallest member of a set of numbers.
KthOf(M, k) == CHOOSE i \in M : Cardinality({j \in M : j <= i}) = k

\* out is R with the records that do not match taken out, the others in
\* their order, each once.
IsMatchingSubsequence(out, R, cols, value) ==
  LET M == {i \in 1..Len(R) : SomeFieldContains(R[i], cols, value)}
  IN  /\ Len(out) = Cardinality(M)
      /\ \A k \in 1..Len(out) : out[k] = R[KthOf(M, k)]

\* C14: a search input with a non-empty query, made over last-rendered
\* records R with their field list, displays exactly the records of R that
\* have a non-null field whose lower-cased text contains the trimmed,
\* lower-cased query, in the order of R and each once; a null field never
\* matches.
C14_FilterIsMatchingSubsequence ==
  [][\A value \in SearchInputs :
       /\ SearchInput(value)
       /\ QueryOf(value) # <<>>
       /\ lastRenderedRows # <<>>
       /\ lastRenderedCols # <<>>
       => IsMatchingSubsequence(DisplayedRows(view'), lastRenderedRows,
                                lastRenderedCols, value)]_vars

\* C14's case: a non-empty query has kept some of the roster's records and
\* dropped others, one of which holds a null field.
C14_Witness ==
  /\ lastHandler.op = "input"
  /\ QueryOf(searchValue) # <<>>
  /\ currentTab = "cattle"
  /\ Len(DisplayedRows(view)) > 0
  /\ Len(DisplayedRows(view)) < lastHandler.prevTotal
  /\ \A i \in 1..Len(DisplayedRows(view)) : DisplayedRows(view)[i].cohort = Null

\* Every record of the sequence a is a record of the sequence b.
AmongRows(a, b) == SeqRange(a) \subseteq SeqRange(b)

Resolved(c) == c.kind = "Missing" \/ c.src # <<>>

\* C16: a photo loop in flight waits for the bytes of one image; the images
\* before it in row order are all resolved, the images after it are all
\* untouched, and no table has two loops.
C16_PhotosInSequence ==
  \A t \in tasks :
     /\ t.pos \in 1..Len(t.imgs)
     /\ t.path = dom[t.tid][t.imgs[t.pos]].photo
     /\ \A k \in 1..Len(t.imgs) :
          /\ k < t.pos => Resolved(dom[t.tid][t.imgs[k]])
          /\ k >= t.pos => ~Resolved(dom[t.tid][t.imgs[k]])
          /\ k < Len(t.imgs) => t.imgs[k] < t.imgs[k + 1]
     /\ \A u \in tasks : u.tid = t.tid => u = t

\* C16's case: a loop waits for the bytes of one image while the next image
\* of its table, which is in the archive index too, has not been touched.
C16_Witness ==
  \E t \in tasks :
     /\ t.pos < Len(t.imgs)
     /\ dom[t.tid][t.imgs[t.pos + 1]].photo \in DOMAIN ZipEntries(zipIndex)
     /\ ~Resolved(dom[t.tid][t.imgs[t.pos + 1]])

\* A handler other than a photo loop runs.
OtherHandlerRuns ==
  \/ \E a \in BackupFiles : PickFile(a)
  \/ \E i \in 1..MaxPicks : LoadIndexed(i)
  \/ \E i \in 1..MaxPicks : LoadOpened(i)
  \/ \E tab \in Tabs : TabClick(tab)
  \/ \E value \in SearchInputs : SearchInput(value)

FromSameArchive ==
  IF zipIndex = NoZip THEN db = NullDb
  ELSE db # NullDb /\ db = ArchiveOf(zipIndex).database

\* C18: whenever no load is in flight, the open database and the archive
\* index that photos are resolved against come from the same archive,
\* whatever loads came before, failed ones and overlapping ones included.
C18_DbAndIndexAgree ==
  loads = <<>> => FromSameArchive

====
